---------------------------- MODULE Spec2Model ----------------------------
(***************************************************************************)
(* The A2S "rules" response codec of a2s-rs (src/src/rules.rs):            *)
(* Rule::from_cursor (decoder), unescape, Rule::vec_to_bytes and           *)
(* Rule::to_bytes (encoder).                                               *)
(*                                                                         *)
(* A byte is a number in 0..255, a buffer a sequence of bytes.  A text     *)
(* (Rust String) is a sequence of Unicode code points.  Cursor positions   *)
(* are 0-based as in the source: byte number p of buffer b is b[p + 1].    *)
(* from_cursor is modelled one step per statement or loop iteration of     *)
(* the source; an early return through `?` or `return Err` ends the call   *)
(* with an error result and leaves the locals as they were.                *)
(***************************************************************************)
EXTENDS Integers, Sequences, FiniteSets, TLC

VARIABLES
    input,          \* how the call's argument was built (fixture description)
    data,           \* from_cursor's buffer (Cursor<Vec<u8>> contents)
    pos,            \* data's cursor position
    pc,             \* position in the call
    count,          \* let count (rules.rs:71)
    i,              \* for i in 0..count (rules.rs:79)
    rules,          \* let mut rules (rules.rs:73)
    mod_bytes,      \* let mut mod_bytes (rules.rs:74)
    num_mods,       \* let mut num_mods (rules.rs:76)
    num_mod_rules,  \* let mut num_mod_rules (rules.rs:77)
    mods_pos,       \* position of the cursor `mods` (rules.rs:102)
    m,              \* iterations done of for _ in 0..num_mods (rules.rs:105)
    result          \* the value the call returned

vars == <<input, data, pos, pc, count, i, rules, mod_bytes, num_mods,
          num_mod_rules, mods_pos, m, result>>

-----------------------------------------------------------------------------
(* Program constants *)

\* rules.rs:16, the last byte of RULES_REQUEST
RequestByte == 86
\* rules.rs:67, the response marker
Marker == 69
\* rules.rs:103, mods.seek(SeekFrom::Start(5))
ModHeaderLen == 5
\* rules.rs:106, mods.seek(SeekFrom::Current(5))
ModRecordSkip == 5
\* rules.rs:84, value.get(4)
NumModsOffset == 4
\* rules.rs:85, name.get(1)
NumModRulesOffset == 1
\* U+FFFD, what String::from_utf8_lossy puts for an invalid byte
Replacement == 65533

-----------------------------------------------------------------------------
(* Values *)

Regular(name, value) == [type |-> "Regular", name |-> name, value |-> value]

Mod(id, name) == [type |-> "Mod", id |-> id, name |-> name]

Ok(v) == [kind |-> "Ok", value |-> v]

Err(e) == [kind |-> "Err", error |-> e]

Pending == [kind |-> "Pending"]

-----------------------------------------------------------------------------
(* Helpers of the decoder *)

\* slice.get(k): the byte at 0-based offset k, or the default
GetOr(bytes, k, default) == IF k < Len(bytes) THEN bytes[k + 1] ELSE default

\* the four bytes read most significant first
BigEndian32(b0, b1, b2, b3) == b3 + 256 * b2 + 65536 * b1 + 16777216 * b0

\* byteorder's little-endian reads
LittleEndian16(b0, b1) == b0 + 256 * b1

LittleEndian32(b0, b1, b2, b3) == b0 + 256 * b1 + 65536 * b2 + 16777216 * b3

\* String::from_utf8_lossy(..).to_string(): an ASCII byte is its code point, a
\* byte that cannot be part of any UTF-8 sequence becomes U+FFFD.  Exact for
\* the bytes the fixtures below hold: ASCII and 0xFF.
from_utf8_lossy(bytes) ==
    [k \in 1..Len(bytes) |-> IF bytes[k] < 128 THEN bytes[k] ELSE Replacement]

\* ReadBytes::read_bytes_nullterm: the bytes up to the next 0, the cursor left
\* after the 0; an error when the buffer ends first.
read_bytes_nullterm(buf, p) ==
    LET zeros == {k \in (p + 1)..Len(buf) : buf[k] = 0} IN
    IF zeros = {} THEN [ok |-> FALSE, bytes |-> <<>>, pos |-> p]
    ELSE LET z == CHOOSE k \in zeros : \A j \in zeros : k <= j IN
         [ok |-> TRUE, bytes |-> SubSeq(buf, p + 1, z - 1), pos |-> z]

\* ReadBytes::read_bytes(len): exactly len bytes, or an error
read_bytes(buf, p, len) ==
    IF p + len > Len(buf) THEN [ok |-> FALSE, bytes |-> <<>>, pos |-> p]
    ELSE [ok |-> TRUE, bytes |-> SubSeq(buf, p + 1, p + len), pos |-> p + len]

\* UnescapeLoop pushing a last lone 0x01 instead of breaking
RECURSIVE UnescapeLoopKeepsLast(_, _, _)
UnescapeLoopKeepsLast(tmp_bytes, idx, bytes) ==
    IF ~(idx < Len(tmp_bytes)) THEN bytes
    ELSE LET curr_byte == tmp_bytes[idx + 1] IN
         IF curr_byte = 1 /\ idx + 1 < Len(tmp_bytes)
         THEN LET next_byte == tmp_bytes[idx + 2] IN
              CASE next_byte = 1 -> UnescapeLoopKeepsLast(tmp_bytes, idx + 2, Append(bytes, 1))
                [] next_byte = 2 -> UnescapeLoopKeepsLast(tmp_bytes, idx + 2, Append(bytes, 0))
                [] next_byte = 3 -> UnescapeLoopKeepsLast(tmp_bytes, idx + 2, Append(bytes, 255))
                [] OTHER -> UnescapeLoopKeepsLast(tmp_bytes, idx + 1, Append(bytes, curr_byte))
         ELSE UnescapeLoopKeepsLast(tmp_bytes, idx + 1, Append(bytes, curr_byte))

\* unescape's while loop (rules.rs:126-152); idx is the source's i
RECURSIVE UnescapeLoop(_, _, _)
UnescapeLoop(tmp_bytes, idx, bytes) ==
    IF ~(idx < Len(tmp_bytes)) THEN bytes
    ELSE LET curr_byte == tmp_bytes[idx + 1] IN
         IF curr_byte = 1
         THEN IF ~(idx + 1 < Len(tmp_bytes)) THEN bytes   \* let .. else { break }
              ELSE LET next_byte == tmp_bytes[idx + 2] IN
                   CASE next_byte = 1 -> UnescapeLoop(tmp_bytes, idx + 2, Append(bytes, 1))
                     [] next_byte = 2 -> UnescapeLoop(tmp_bytes, idx + 2, Append(bytes, 0))
                     [] next_byte = 3 -> UnescapeLoop(tmp_bytes, idx + 2, Append(bytes, 255))
                     [] OTHER -> UnescapeLoop(tmp_bytes, idx + 1, Append(bytes, curr_byte))
         ELSE UnescapeLoop(tmp_bytes, idx + 1, Append(bytes, curr_byte))

\* fn unescape: read_to_end of an in-memory cursor cannot fail, so it is Ok
unescape(bytes) == Ok(UnescapeLoop(bytes, 0, <<>>))

\* ExtendModBytes putting the new fragment before the earlier ones
ExtendModBytesFront(acc, value) == value \o acc

\* mod_bytes.extend(value) (rules.rs:93)
ExtendModBytes(acc, value) == acc \o value

\* rules.push(Rule::Regular { .. }) (rules.rs:95-98)
PushRegular(rs, name, value) ==
    Append(rs, Regular(from_utf8_lossy(name), from_utf8_lossy(value)))

\* PushMod putting the Mod before the rules collected so far
PushModFront(rs, mod_id, mod_name) == <<Mod(mod_id, from_utf8_lossy(mod_name))>> \o rs

\* rules.push(Rule::Mod { .. }) (rules.rs:110-113)
PushMod(rs, mod_id, mod_name) == Append(rs, Mod(mod_id, from_utf8_lossy(mod_name)))

\* IsCarrier with the index compared by < instead of <=
IsCarrierStrict(name, nmr) ==
    /\ Len(name) = 2
    /\ NumModRulesOffset < Len(name) /\ name[2] = nmr
    /\ 0 < Len(name) /\ name[1] < nmr

\* the condition of the if at rules.rs:88-92
IsCarrier(name, nmr) ==
    /\ Len(name) = 2
    /\ NumModRulesOffset < Len(name) /\ name[2] = nmr
    /\ 0 < Len(name) /\ name[1] <= nmr

-----------------------------------------------------------------------------
(* Rule::from_cursor *)

\* Fail handing back the rules collected so far instead of the error
FailPartial(e) ==
    /\ result' = Ok(rules)
    /\ pc' = "done"
    /\ UNCHANGED <<input, data, pos, count, i, rules, mod_bytes, num_mods,
                   num_mod_rules, mods_pos, m>>

\* an early return with an error (the `?` operators and rules.rs:68)
Fail(e) ==
    /\ result' = Err(e)
    /\ pc' = "done"
    /\ UNCHANGED <<input, data, pos, count, i, rules, mod_bytes, num_mods,
                   num_mod_rules, mods_pos, m>>

\* if data.read_u8()? != 0x45 { return Err(Error::InvalidResponse); }
ReadMarker ==
    /\ pc = "marker"
    /\ IF ~(pos < Len(data)) THEN Fail("Io")
       ELSE IF data[pos + 1] # Marker
            THEN /\ result' = Err("InvalidResponse")
                 /\ pc' = "done"
                 /\ pos' = pos + 1
                 /\ UNCHANGED <<input, data, count, i, rules, mod_bytes,
                                num_mods, num_mod_rules, mods_pos, m>>
            ELSE /\ pos' = pos + 1
                 /\ pc' = "count"
                 /\ UNCHANGED <<input, data, count, i, rules, mod_bytes,
                                num_mods, num_mod_rules, mods_pos, m, result>>

\* let count = data.read_u16::<LittleEndian>()?; and the four lets after it
ReadCount ==
    /\ pc = "count"
    /\ IF pos + 2 > Len(data) THEN Fail("Io")
       ELSE /\ count' = LittleEndian16(data[pos + 1], data[pos + 2])
            /\ pos' = pos + 2
            /\ rules' = <<>>
            /\ mod_bytes' = <<>>
            /\ num_mods' = 0
            /\ num_mod_rules' = 0
            /\ i' = 0
            /\ pc' = "entries"
            /\ UNCHANGED <<input, data, mods_pos, m, result>>

\* one iteration of for i in 0..count (rules.rs:79-100)
ReadEntry ==
    /\ pc = "entries"
    /\ i < count
    /\ LET rn == read_bytes_nullterm(data, pos) IN
       IF ~rn.ok THEN Fail("Io")
       ELSE
       LET rv == read_bytes_nullterm(data, rn.pos) IN
       IF ~rv.ok THEN Fail("Io")
       ELSE
       LET name == rn.bytes
           value == unescape(rv.bytes).value
           nm == IF i = 0 THEN GetOr(value, NumModsOffset, 0) ELSE num_mods
           nmr == IF i = 0 THEN GetOr(name, NumModRulesOffset, 0) ELSE num_mod_rules
       IN  /\ num_mods' = nm
           /\ num_mod_rules' = nmr
           /\ IF IsCarrier(name, nmr)
              THEN /\ mod_bytes' = ExtendModBytes(mod_bytes, value)
                   /\ rules' = rules
              ELSE /\ rules' = PushRegular(rules, name, value)
                   /\ mod_bytes' = mod_bytes
           /\ pos' = rv.pos
           /\ i' = i + 1
           /\ UNCHANGED <<input, data, pc, count, mods_pos, m, result>>

\* SeekMods with a skip that fails when the header is not there
SeekModsChecked ==
    /\ pc = "entries"
    /\ ~(i < count)
    /\ IF ModHeaderLen > Len(mod_bytes) THEN Fail("Io")
       ELSE /\ mods_pos' = ModHeaderLen
            /\ m' = 0
            /\ pc' = "mods"
            /\ UNCHANGED <<input, data, pos, count, i, rules, mod_bytes, num_mods,
                           num_mod_rules, result>>

\* let mut mods = Cursor::new(mod_bytes); mods.seek(SeekFrom::Start(5))?;
\* a Cursor seeks past its end without an error
SeekMods ==
    /\ pc = "entries"
    /\ ~(i < count)
    /\ mods_pos' = ModHeaderLen
    /\ m' = 0
    /\ pc' = "mods"
    /\ UNCHANGED <<input, data, pos, count, i, rules, mod_bytes, num_mods,
                   num_mod_rules, result>>

\* one iteration of for _ in 0..num_mods (rules.rs:105-114)
ReadMod ==
    /\ pc = "mods"
    /\ m < num_mods
    /\ LET p1 == mods_pos + ModRecordSkip
           rid == read_bytes(mod_bytes, p1, 4)
       IN
       IF ~rid.ok THEN Fail("Io")
       ELSE
       LET mod_id == LittleEndian32(rid.bytes[1], rid.bytes[2], rid.bytes[3], rid.bytes[4])
           rlen == read_bytes(mod_bytes, rid.pos, 1)
       IN
       IF ~rlen.ok THEN Fail("Io")
       ELSE
       LET mod_name_len == rlen.bytes[1]
           rname == read_bytes(mod_bytes, rlen.pos, mod_name_len)
       IN
       IF ~rname.ok THEN Fail("Io")
       ELSE /\ rules' = PushMod(rules, mod_id, rname.bytes)
            /\ mods_pos' = rname.pos
            /\ m' = m + 1
            /\ UNCHANGED <<input, data, pos, pc, count, i, mod_bytes, num_mods,
                           num_mod_rules, result>>

\* Ok(rules)
Return ==
    /\ pc = "mods"
    /\ ~(m < num_mods)
    /\ result' = Ok(rules)
    /\ pc' = "done"
    /\ UNCHANGED <<input, data, pos, count, i, rules, mod_bytes, num_mods,
                   num_mod_rules, mods_pos, m>>

Decode == ReadMarker \/ ReadCount \/ ReadEntry \/ SeekMods \/ ReadMod \/ Return

\* a call of unescape on its own
CallUnescape ==
    /\ pc = "unescape"
    /\ result' = unescape(input.bytes)
    /\ pc' = "done"
    /\ UNCHANGED <<input, data, pos, count, i, rules, mod_bytes, num_mods,
                   num_mod_rules, mods_pos, m>>

\* the state of a call that has not started on buffer d built as inp
Start(inp, d, at) ==
    /\ input = inp
    /\ data = d
    /\ pos = 0
    /\ pc = at
    /\ count = 0
    /\ i = 0
    /\ rules = <<>>
    /\ mod_bytes = <<>>
    /\ num_mods = 0
    /\ num_mod_rules = 0
    /\ mods_pos = 0
    /\ m = 0
    /\ result = Pending


-----------------------------------------------------------------------------
(* Rule::vec_to_bytes and Rule::to_bytes *)

\* {integer}::to_le_bytes for an integer of `width` bytes
RECURSIVE to_le_bytes(_, _)
to_le_bytes(n, width) ==
    IF width = 0 THEN <<>> ELSE <<n % 256>> \o to_le_bytes(n \div 256, width - 1)

\* the UTF-8 encoding of one code point (below U+10000)
Utf8Char(cp) ==
    IF cp < 128 THEN <<cp>>
    ELSE IF cp < 2048 THEN <<192 + (cp \div 64), 128 + (cp % 64)>>
    ELSE <<224 + (cp \div 4096), 128 + ((cp \div 64) % 64), 128 + (cp % 64)>>

\* String::as_bytes
RECURSIVE as_bytes(_)
as_bytes(text) ==
    IF text = <<>> THEN <<>> ELSE Utf8Char(Head(text)) \o as_bytes(Tail(text))

\* Rule::to_bytes (rules.rs:46-64)
to_bytes(rule) ==
    IF rule.type = "Regular"
    THEN as_bytes(rule.name) \o <<0>> \o as_bytes(rule.value) \o <<0>>
    ELSE as_bytes(rule.name) \o <<0>> \o to_le_bytes(rule.id, 4)

RECURSIVE ExtendAll(_, _)
\* for rule in rules { bytes.extend(rule.to_bytes()); }
ExtendAll(bytes, rs) ==
    IF rs = <<>> THEN bytes ELSE ExtendAll(bytes \o to_bytes(Head(rs)), Tail(rs))

\* Rule::vec_to_bytes (rules.rs:32-44); usize is usize_width bytes wide
vec_to_bytes(rs, usize_width) ==
    ExtendAll(<<255, 255, 255, 255, 69>> \o to_le_bytes(Len(rs), usize_width), rs)

\* a caller encodes a rule list and hands the bytes to from_cursor
Encode ==
    /\ pc = "encode"
    /\ data' = vec_to_bytes(input.rules, input.usize_width)
    /\ pc' = "marker"
    /\ UNCHANGED <<input, pos, count, i, rules, mod_bytes, num_mods,
                   num_mod_rules, mods_pos, m, result>>

-----------------------------------------------------------------------------
(* Fixtures: the buffers the calls are made on *)

\* bounds of the fixtures
MaxEntries == 3
MaxDrop == 3
MaxRules == 2

\* the byte stuffing that unescape reverses (rules.rs:131-146 read backwards)
RECURSIVE Escape(_)
Escape(bytes) ==
    IF bytes = <<>> THEN <<>>
    ELSE LET b == Head(bytes) IN
         (CASE b = 1 -> <<1, 1>>
            [] b = 0 -> <<1, 2>>
            [] b = 255 -> <<1, 3>>
            [] OTHER -> <<b>>) \o Escape(Tail(bytes))

\* one mod-table record as rules.rs:106-109 reads it
ModRecord(reserved, id, name) ==
    reserved \o to_le_bytes(id, 4) \o <<Len(name)>> \o name

\* a wire entry as rules.rs:80-81 reads it
WireEntry(e) == e.name \o <<0>> \o e.value \o <<0>>

RECURSIVE WireEntries(_)
WireEntries(es) ==
    IF es = <<>> THEN <<>> ELSE WireEntry(Head(es)) \o WireEntries(Tail(es))

\* a response as rules.rs:67-81 reads it, its last `drop` bytes cut off
WireBuffer(marker, cnt, es, drop) ==
    LET whole == <<marker>> \o to_le_bytes(cnt, 2) \o WireEntries(es) IN
    SubSeq(whole, 1, IF drop < Len(whole) THEN Len(whole) - drop ELSE 0)

\* a table of one mod, id 7 and name "f", after a header whose byte 4 is 1
Table1 == <<2, 0, 0, 255, 1>> \o ModRecord(<<0, 0, 0, 0, 0>>, 7, <<102>>)

\* wire entries: plain rules, names of one, two and three bytes, values
\* shorter and longer than five bytes, a whole mod table and its two halves
EntryPool ==
    {[name |-> <<65>>, value |-> <<56, 48, 48>>],
     [name |-> <<65>>, value |-> <<65, 65, 65, 65, 65>>],
     [name |-> <<65, 2, 66>>, value |-> <<56, 48, 48>>],
     [name |-> <<3, 2>>, value |-> <<65, 66, 67, 255, 1, 2, 1>>],
     [name |-> <<1, 1>>, value |-> Escape(Table1)],
     [name |-> <<1, 2>>, value |-> Escape(SubSeq(Table1, 1, 7))],
     [name |-> <<2, 2>>, value |-> Escape(SubSeq(Table1, 8, Len(Table1)))]}

EntryLists == UNION {[1..n -> EntryPool] : n \in 0..MaxEntries}

CountPool(es) == {0, Len(es), Len(es) + 1, 256}

TextPool == {<<>>, <<65>>, <<65, 66>>}

RulePool == {Regular(n, v) : n \in TextPool, v \in TextPool}

RuleLists == UNION {[1..n -> RulePool] : n \in 0..MaxRules}

\* usize is 4 or 8 bytes wide, as the target has it
UsizeWidths == {4, 8}

\* responses with the marker 0x45, whole and cut short, with the count right
\* and wrong; responses that start with the request's byte instead; rule lists
\* to encode first
Init ==
    \/ \E es \in EntryLists, drop \in 0..MaxDrop :
         \E cnt \in CountPool(es) :
            Start([kind |-> "wire"], WireBuffer(69, cnt, es, drop), "marker")
    \/ \E es \in EntryLists :
         Start([kind |-> "wire"], WireBuffer(RequestByte, Len(es), es, 0), "marker")
    \/ \E rs \in RuleLists, w \in UsizeWidths :
         Start([kind |-> "encode", rules |-> rs, usize_width |-> w], <<>>, "encode")

Next == Encode \/ Decode

Spec == Init /\ [][Next]_vars

-----------------------------------------------------------------------------
(* unescape on its own *)

MaxUnescapeLen == 5

UnescapePool == {0, 1, 2, 3, 65, 255}

UnescapeInputs == UNION {[1..n -> UnescapePool] : n \in 0..MaxUnescapeLen}

InitUnescape ==
    \E b \in UnescapeInputs : Start([kind |-> "unescape", bytes |-> b], <<>>, "unescape")

NextUnescape == CallUnescape

SpecUnescape == InitUnescape /\ [][NextUnescape]_vars

-----------------------------------------------------------------------------
(* The end-to-end response: one carrier holding a table of one mod, id 7 and  *)
(* name "foo", then one regular rule                                        *)

ReservedA == [1..5 -> {0, 1, 255}]

ReservedB == [1..5 -> {0, 255}]

\* regular rules that are no carriers when num_mod_rules is 1
SecondPool ==
    {[name |-> <<65>>, value |-> <<56, 48, 48>>],
     [name |-> <<3, 1>>, value |-> <<65, 1, 3>>]}

EndToEndValue(resA, resB) ==
    Escape(resA \o ModRecord(resB, 7, <<102, 111, 111>>))

InitEndToEnd ==
    \E resA \in ReservedA, resB \in ReservedB, second \in SecondPool :
        Start([kind |-> "e2e", resA |-> resA, resB |-> resB, second |-> second],
              WireBuffer(69, 2, <<[name |-> <<1, 1>>,
                                   value |-> EndToEndValue(resA, resB)], second>>, 0),
              "marker")

NextDecode == Decode

SpecEndToEnd == InitEndToEnd /\ [][NextDecode]_vars

-----------------------------------------------------------------------------
(* A mod table split over several carriers *)

MaxFragments == 3

\* where a table may be cut: inside the header, right after it, inside a record
CutPool == {3, 5, 6, 10, 15}

\* a mod table as rules.rs:103-109 reads it: 4 bytes, the number of mods, the records
RECURSIVE ModRecords(_)
ModRecords(mods) ==
    IF mods = <<>> THEN <<>>
    ELSE ModRecord(Head(mods).reserved, Head(mods).id, Head(mods).name)
         \o ModRecords(Tail(mods))

ModTable(hdr, mods) == hdr \o <<Len(mods)>> \o ModRecords(mods)

ModListPool ==
    {<<[reserved |-> <<0, 0, 0, 0, 0>>, id |-> 7, name |-> <<102>>]>>,
     <<[reserved |-> <<0, 0, 0, 0, 0>>, id |-> 7, name |-> <<102>>],
       [reserved |-> <<1, 2, 3, 4, 5>>, id |-> 258, name |-> <<>>]>>}

RECURSIVE SortedSeq(_)
SortedSeq(S) ==
    IF S = {} THEN <<>>
    ELSE LET least == CHOOSE x \in S : \A y \in S : x <= y
         IN <<least>> \o SortedSeq(S \ {least})

\* table cut at the offsets cuts
Pieces(table, cuts) ==
    LET b == <<0>> \o SortedSeq(cuts) \o <<Len(table)>> IN
    [j \in 1..(Cardinality(cuts) + 1) |-> SubSeq(table, b[j] + 1, b[j + 1])]

\* the carriers of the pieces, carrier j named (idx[j], number of pieces)
CarrierEntries(pieces, idx) ==
    [j \in 1..Len(pieces) |->
        [name |-> <<idx[j], Len(pieces)>>, value |-> Escape(pieces[j])]]

PlainEntry == [name |-> <<65>>, value |-> <<56, 48, 48>>]

\* es with the plain rule after its q-th entry (q = 0: es as it is)
WithPlainAfter(es, q) ==
    IF q = 0 THEN es
    ELSE SubSeq(es, 1, q) \o <<PlainEntry>> \o SubSeq(es, q + 1, Len(es))

InitFragments ==
    \E mods \in ModListPool, k \in 1..MaxFragments :
      \E cuts \in {c \in SUBSET CutPool : Cardinality(c) = k - 1},
         idx \in [1..k -> {1, k}], q \in 0..k :
        LET table == ModTable(<<2, 0, 0, 255>>, mods)
            pieces == Pieces(table, cuts)
            es == WithPlainAfter(CarrierEntries(pieces, idx), q)
        IN Start([kind |-> "fragments", table |-> table, pieces |-> pieces,
                  mods |-> [j \in 1..Len(mods) |->
                               Mod(mods[j].id, from_utf8_lossy(mods[j].name))],
                  plain |-> q],
                 WireBuffer(69, Len(es), es, 0), "marker")

NextFragments == Decode

SpecFragments == InitFragments /\ [][NextFragments]_vars

-----------------------------------------------------------------------------
(* What the claims say of a buffer, read off the buffer itself *)

\* the transform the unescape claim describes, by cases on the front of s
RECURSIVE RefUnescape(_)
RefUnescape(s) ==
    IF s = <<>> THEN <<>>
    ELSE IF Head(s) # 1 THEN <<Head(s)>> \o RefUnescape(Tail(s))
    ELSE IF Len(s) = 1 THEN <<>>
    ELSE IF s[2] = 1 THEN <<1>> \o RefUnescape(Tail(Tail(s)))
    ELSE IF s[2] = 2 THEN <<0>> \o RefUnescape(Tail(Tail(s)))
    ELSE IF s[2] = 3 THEN <<255>> \o RefUnescape(Tail(Tail(s)))
    ELSE <<1>> \o RefUnescape(Tail(s))

\* the null-terminated strings s holds, in order; bytes after the last 0 are left out
RECURSIVE SplitNul(_)
SplitNul(s) ==
    IF \A k \in 1..Len(s) : s[k] # 0 THEN <<>>
    ELSE LET z == CHOOSE k \in 1..Len(s) : s[k] = 0 /\ \A j \in 1..(k - 1) : s[j] # 0
         IN <<SubSeq(s, 1, z - 1)>> \o SplitNul(SubSeq(s, z + 1, Len(s)))

\* the strings after the marker and the count
WireFields == SplitNul(SubSeq(data, 4, Len(data)))

\* the 16-bit little-endian count N
WireCount == data[2] + 256 * data[3]

\* the buffer holds n whole entries
HasEntries(n) == Len(WireFields) >= 2 * n

\* entry k (entry 0 of the claims is k = 1)
EntryName(k) == WireFields[2 * k - 1]

EntryValue(k) == RefUnescape(WireFields[2 * k])

ExpNumModRules == IF Len(EntryName(1)) >= 2 THEN EntryName(1)[2] ELSE 0

ExpNumMods ==
    IF WireCount = 0 THEN 0
    ELSE IF Len(EntryValue(1)) >= 5 THEN EntryValue(1)[5] ELSE 0

ExpCarrier(k) ==
    LET n == EntryName(k) IN
    Len(n) = 2 /\ n[2] = ExpNumModRules /\ n[1] <= ExpNumModRules

\* the Regular rules of the first k entries, in wire order
RECURSIVE ExpRegulars(_)
ExpRegulars(k) ==
    IF k = 0 THEN <<>>
    ELSE IF ExpCarrier(k) THEN ExpRegulars(k - 1)
    ELSE Append(ExpRegulars(k - 1),
                Regular(from_utf8_lossy(EntryName(k)), from_utf8_lossy(EntryValue(k))))

\* the unescaped values of the carriers among the first k entries, in wire order
RECURSIVE ExpModBytes(_)
ExpModBytes(k) ==
    IF k = 0 THEN <<>>
    ELSE IF ExpCarrier(k) THEN ExpModBytes(k - 1) \o EntryValue(k)
    ELSE ExpModBytes(k - 1)

\* n whole records (5 bytes, 4-byte id, name_len, name) lie in buf from offset p on
RECURSIVE ModsFit(_, _, _)
ModsFit(buf, p, n) ==
    IF n = 0 THEN TRUE
    ELSE /\ p + 10 <= Len(buf)
         /\ p + 10 + buf[p + 10] <= Len(buf)
         /\ ModsFit(buf, p + 10 + buf[p + 10], n - 1)

\* those n records as Mod rules
RECURSIVE ExpMods(_, _, _)
ExpMods(buf, p, n) ==
    IF n = 0 THEN <<>>
    ELSE LET len == buf[p + 10]
             id == buf[p + 6] + 256 * (buf[p + 7] + 256 * (buf[p + 8] + 256 * buf[p + 9]))
         IN <<Mod(id, from_utf8_lossy(SubSeq(buf, p + 11, p + 10 + len)))>>
            \o ExpMods(buf, p + 10 + len, n - 1)

\* the buffer ends before something from_cursor has to read
Truncated ==
    IF Len(data) < 3 THEN TRUE
    ELSE IF ~HasEntries(WireCount) THEN TRUE
    ELSE ~ModsFit(ExpModBytes(WireCount), 5, ExpNumMods)

\* marker, count N >= 1, N whole entries, none of them a carrier
PlainResponse ==
    /\ Len(data) >= 3
    /\ data[1] = 69
    /\ WireCount >= 1
    /\ HasEntries(WireCount)
    /\ \A k \in 1..WireCount : ~ExpCarrier(k)

-----------------------------------------------------------------------------
(* Claims checked under Spec *)

\* C2: decoding the bytes vec_to_bytes makes of a list of Regular rules without
\* null bytes succeeds and gives the list back.
C2_RoundTrip ==
    (pc = "done" /\ input.kind = "encode") => result = Ok(input.rules)

\* C3: an entry goes to the mod-table buffer iff its name has exactly 2 bytes,
\* name[1] = num_mod_rules and name[0] <= num_mod_rules, num_mod_rules being byte 1
\* of entry 0's name (0 when shorter) for the whole call; every other entry is
\* emitted as a Regular rule.
C3_CarrierClassification ==
    [][(pc = "entries" /\ i' = i + 1) =>
          /\ num_mod_rules' = ExpNumModRules
          /\ IF ExpCarrier(i + 1)
             THEN /\ rules' = rules
                  /\ mod_bytes' = mod_bytes \o EntryValue(i + 1)
             ELSE /\ mod_bytes' = mod_bytes
                  /\ rules' = Append(rules,
                                Regular(from_utf8_lossy(EntryName(i + 1)),
                                        from_utf8_lossy(EntryValue(i + 1))))]_vars

\* C3's case: a later entry was classified with entry 0's num_mod_rules, one
\* entry having gone to each side
C3_Witness ==
    /\ pc = "entries"
    /\ i = 3
    /\ num_mod_rules = 2
    /\ Len(rules) = 2
    /\ mod_bytes # <<>>
    /\ Len(EntryName(3)) = 2 /\ ~ExpCarrier(3)

\* C5: a buffer that ends before the marker, the count, the terminator of one of
\* the N names or values, or a mod table that ends inside one of the num_mods
\* records, gives an error and no rule list.
C5_TruncationIsFatal ==
    (pc = "done" /\ Truncated) =>
        /\ result.kind = "Err"
        /\ (data = <<>> \/ data[1] = 69) => result = Err("Io")

\* C5's case: Regular rules had been collected when the mod table ran out
C5_Witness ==
    /\ pc = "done"
    /\ Truncated
    /\ Len(data) >= 3 /\ HasEntries(WireCount)
    /\ Len(rules) >= 1
    /\ mod_bytes # <<>>
    /\ result.kind = "Err"

\* C6: a non-empty buffer whose first byte is not 0x45 fails with
\* InvalidResponse, and neither the count nor an entry is read.
C6_MarkerCheck ==
    (pc = "done" /\ Len(data) >= 1 /\ data[1] # 69) =>
        /\ result = Err("InvalidResponse")
        /\ pos = 1
        /\ count = 0 /\ i = 0 /\ rules = <<>> /\ mod_bytes = <<>>

C6_Witness ==
    /\ pc = "done"
    /\ Len(data) > 3
    /\ data[1] # 69
    /\ result = Err("InvalidResponse")

\* C7: marker 0x45 and count 0 decode to the empty list, whatever follows.
C7_EmptyRuleList ==
    (pc = "done" /\ Len(data) >= 3 /\ data[1] = 69 /\ data[2] = 0 /\ data[3] = 0)
        => result = Ok(<<>>)

\* C7's case: count 0 with bytes after it
C7_Witness ==
    /\ pc = "done"
    /\ Len(data) > 3 /\ data[1] = 69 /\ data[2] = 0 /\ data[3] = 0
    /\ result.kind = "Ok"

\* C9: a successful result is the Regular rules of the non-carrier entries in
\* wire order (N minus the number of carriers of them) followed by num_mods Mod
\* rules in table order, num_mods being byte 4 of entry 0's unescaped value.
C9_ResultShape ==
    (pc = "done" /\ result.kind = "Ok") =>
        LET rs == result.value
            regs == ExpRegulars(WireCount)
            carriers == {k \in 1..WireCount : ExpCarrier(k)}
        IN /\ Len(regs) = WireCount - Cardinality(carriers)
           /\ Len(rs) = Len(regs) + ExpNumMods
           /\ \A k \in 1..Len(rs) :
                rs[k].type = IF k <= Len(regs) THEN "Regular" ELSE "Mod"
           /\ SubSeq(rs, 1, Len(regs)) = regs
           /\ SubSeq(rs, Len(regs) + 1, Len(rs))
                = ExpMods(ExpModBytes(WireCount), 5, ExpNumMods)

\* C9's case: two Regular rules and a Mod in one result
C9_Witness ==
    /\ pc = "done"
    /\ result.kind = "Ok"
    /\ Len(result.value) = 3
    /\ result.value[2].type = "Regular"
    /\ result.value[3].type = "Mod"
    /\ WireCount = 3
    /\ ExpCarrier(1) /\ ~ExpCarrier(2)

\* C10: a response of N >= 1 whole entries none of which is a carrier decodes to
\* exactly N Regular rules, whatever the first entry's value.
C10_PlainResponseDecodes ==
    (pc = "done" /\ PlainResponse) => result = Ok(ExpRegulars(WireCount))

-----------------------------------------------------------------------------
(* Claim checked under SpecUnescape *)

\* C4: unescape is the transform that turns 01 01, 01 02, 01 03 into 01, 00, FF,
\* leaves a 01 before any other byte as it is, drops a 01 that ends the input
\* and copies every other byte; unescape([01,02,01,03,41]) = [00,FF,41]; it
\* never returns an error.
C4_UnescapeIsReference ==
    (pc = "done" /\ input.kind = "unescape") =>
        /\ result = Ok(RefUnescape(input.bytes))
        /\ input.bytes = <<1, 2, 1, 3, 65>> => result = Ok(<<0, 255, 65>>)

\* C4's case: an escape pair, a 01 before another byte and a 01 at the end
C4_Witness ==
    /\ pc = "done"
    /\ input.kind = "unescape"
    /\ input.bytes = <<1, 2, 1, 65, 1>>
    /\ result = Ok(<<0, 1, 65>>)

-----------------------------------------------------------------------------
(* Claim checked under SpecEndToEnd *)

\* what the end-to-end claim expects: the second entry, then Mod{7, "foo"}
EndToEndExpected ==
    Ok(<<Regular(from_utf8_lossy(input.second.name),
                 from_utf8_lossy(RefUnescape(input.second.value))),
         Mod(7, <<102, 111, 111>>)>>)

\* C1 as stated: the end-to-end buffer decodes to [Regular, Mod{7, "foo"}] for
\* every choice of the reserved bytes.
C1_Original ==
    (pc = "done" /\ input.kind = "e2e") => result = EndToEndExpected

\* C1 as amended: the end-to-end buffer decodes to [Regular, Mod{7, "foo"}] for
\* every choice of the reserved bytes in which the byte at offset 4 of the
\* first reserved block, which from_cursor reads as num_mods, is 1.
C1_EndToEnd ==
    (pc = "done" /\ input.kind = "e2e" /\ input.resA[5] = 1)
        => result = EndToEndExpected

\* C1's case: reserved bytes that need escaping, and the Mod after the Regular
C1_Witness ==
    /\ pc = "done"
    /\ input.kind = "e2e"
    /\ input.resA = <<255, 0, 1, 255, 1>>
    /\ input.resB[1] = 255
    /\ result.kind = "Ok"
    /\ result.value[2] = Mod(7, <<102, 111, 111>>)

-----------------------------------------------------------------------------
(* Claim checked under SpecFragments *)

\* what a split table is expected to decode to
FragmentsExpected ==
    Ok((IF input.plain = 0 THEN <<>>
        ELSE <<Regular(from_utf8_lossy(PlainEntry.name),
                       from_utf8_lossy(PlainEntry.value))>>) \o input.mods)

\* the buffer handed to the mod-table parse is the carriers' unescaped values
\* in wire order, which here is the table
Reassembled ==
    pc = "mods" => (mod_bytes = ExpModBytes(WireCount) /\ mod_bytes = input.table)

\* C8 as stated: the buffer handed to the mod-table parse is the concatenation
\* of the carriers' unescaped values in wire order, whatever the index bytes and
\* the regular entries between them, so a table split over k carriers decodes
\* to the Mod entries of the table in one carrier.
C8_Original ==
    /\ Reassembled
    /\ (pc = "done" /\ input.kind = "fragments") => result = FragmentsExpected

\* C8 as amended: the same, the decoded Mod entries being those of the table in
\* one carrier when the first carrier, entry 0, holds at least the table's first
\* 5 bytes (num_mods is read from byte 4 of entry 0's unescaped value alone).
C8_FragmentReassembly ==
    /\ Reassembled
    /\ (pc = "done" /\ input.kind = "fragments" /\ Len(input.pieces[1]) >= 5)
          => result = FragmentsExpected

\* C8's case: a table of two mods in three carriers, the index bytes not in
\* order, a regular rule between the carriers
C8_Witness ==
    /\ pc = "done"
    /\ input.kind = "fragments"
    /\ Len(input.pieces) = 3
    /\ Len(input.pieces[1]) >= 5
    /\ Len(input.mods) = 2
    /\ input.plain = 1
    /\ WireCount = 4
    /\ EntryName(1) = <<3, 3>> /\ EntryName(4) = <<1, 3>>
    /\ result = FragmentsExpected

=============================================================================
